---- MODULE Spec2Model ----
(***************************************************************************)
(* Native8080: an interpretive Intel 8080 emulator.                        *)
(*                                                                         *)
(* The machine state (struct State8080, cpu8080.h) is one record; every    *)
(* helper of cpu8080.h / cpu8080.cpp is an operator of the same name that  *)
(* maps a state record to a state record (or to a value), and Step8080 is  *)
(* the instruction step.  Memory is the 65,536-byte array, kept as a       *)
(* function whose domain holds exactly the addresses of the non-zero       *)
(* bytes (the array is zero-initialised, cpu8080.h:33).                    *)
(*                                                                         *)
(* C++ integer widths are kept: uint8_t values are reduced mod 2^8,        *)
(* uint16_t values mod 2^16, and an expression that C++ evaluates in int   *)
(* (after integer promotion) is evaluated in the integers.                 *)
(***************************************************************************)
EXTENDS Integers, Sequences, FiniteSets, TLC

VARIABLES
    state,    \* the State8080 object (main.cpp:69)
    io,       \* the IOBus: which handlers are installed (cpu8080.h:91-94)
    cycles,   \* the value returned by the last call of Step8080 (0: none yet)
    opcode,   \* the opcode fetched by the last decoding call (-1: none yet)
    calls,    \* the I/O handler invocations made by the last call
    trail,    \* what held before the last call and before the one before it
    left,     \* number of calls the caller still makes
    driver    \* what main's loop did last (main.cpp:99-107); "none": no loop

vars == <<state, io, cycles, opcode, calls, trail, left, driver>>

-----------------------------------------------------------------------------
(* Widths and bit operations of the C++ integer types.                     *)

Byte == 0 .. 255
Word == 0 .. 65535

u8(x)  == x % 256        \* conversion to uint8_t
u16(x) == x % 65536      \* conversion to uint16_t

\* a & b, a | b, a ^ b on non-negative values
RECURSIVE BitAnd(_, _)
BitAnd(a, b) ==
    IF a = 0 \/ b = 0 THEN 0
    ELSE (a % 2) * (b % 2) + 2 * BitAnd(a \div 2, b \div 2)

RECURSIVE BitOr(_, _)
BitOr(a, b) ==
    IF a = 0 THEN b
    ELSE IF b = 0 THEN a
    ELSE (IF a % 2 = 1 \/ b % 2 = 1 THEN 1 ELSE 0) + 2 * BitOr(a \div 2, b \div 2)

RECURSIVE BitXor(_, _)
BitXor(a, b) ==
    IF a = 0 THEN b
    ELSE IF b = 0 THEN a
    ELSE (IF a % 2 # b % 2 THEN 1 ELSE 0) + 2 * BitXor(a \div 2, b \div 2)

\* uint8_t(~a)
BitNot8(a) == 255 - a

-----------------------------------------------------------------------------
(* Flag bit masks (cpu8080.h:9-15).                                        *)

FLAG_CY    == 1
FLAG_P     == 4
FLAG_AC    == 16
FLAG_Z     == 64
FLAG_S     == 128
FLAG_FIXED == 2

\* number of bytes of State8080::mem
MEM_SIZE == 65536

-----------------------------------------------------------------------------
(* State8080 (cpu8080.h:18-87).                                            *)

\* the state after construction: all member initialisers
Fresh ==
    [A |-> 0, B |-> 0, C |-> 0, D |-> 0, E |-> 0, H |-> 0, L |-> 0,
     F |-> FLAG_FIXED, PC |-> 0, SP |-> 0,
     mem |-> [x \in {} |-> 0], inte |-> FALSE, halted |-> FALSE,
     ub |-> FALSE]
    \* ub is not a member: it records that the current call of Step8080 has
    \* indexed mem outside 0 .. MEM_SIZE-1 (undefined behaviour of
    \* std::array::operator[]).

\* mem[i] for an index inside the array
MemAt(m, i) == IF i \in DOMAIN m THEN m[i] ELSE 0

\* mem[i] = v for an index inside the array
MemPut(m, i, v) ==
    IF v = 0
    THEN [x \in (DOMAIN m) \ {i} |-> m[x]]
    ELSE [x \in (DOMAIN m) \cup {i} |-> IF x = i THEN v ELSE m[x]]

\* (x & flag) != 0 for a single-bit mask flag
HasBit(x, flag) == (x \div flag) % 2 = 1

flag_cy(s) == HasBit(s.F, FLAG_CY)
flag_p(s)  == HasBit(s.F, FLAG_P)
flag_ac(s) == HasBit(s.F, FLAG_AC)
flag_z(s)  == HasBit(s.F, FLAG_Z)
flag_s(s)  == HasBit(s.F, FLAG_S)

\* v ? (F |= flag) : (F &= ~flag), flag a single-bit mask: the bit is added
\* when absent, removed when present, and no other bit of F changes
set_flag(s, flag, v) ==
    [s EXCEPT !.F = IF v THEN (IF HasBit(@, flag) THEN @ ELSE @ + flag)
                         ELSE (IF HasBit(@, flag) THEN @ - flag ELSE @)]

set_cy(s, v) == set_flag(s, FLAG_CY, v)
set_p(s, v)  == set_flag(s, FLAG_P, v)
set_ac(s, v) == set_flag(s, FLAG_AC, v)
set_z(s, v)  == set_flag(s, FLAG_Z, v)
set_s(s, v)  == set_flag(s, FLAG_S, v)

BC(s) == s.B * 256 + s.C
DE(s) == s.D * 256 + s.E
HL(s) == s.H * 256 + s.L

setBC(s, v) == [s EXCEPT !.B = v \div 256, !.C = v % 256]
setDE(s, v) == [s EXCEPT !.D = v \div 256, !.E = v % 256]
setHL(s, v) == [s EXCEPT !.H = v \div 256, !.L = v % 256]

PSW(s) == BitOr(s.A * 256, s.F)
setPSW(s, v) == [s EXCEPT !.A = v \div 256, !.F = BitOr(v % 256, FLAG_FIXED)]

\* read8(uint16_t addr): the parameter is a uint16_t, so the index is in range
read8(s, addr) == MemAt(s.mem, u16(addr))
write8(s, addr, v) == [s EXCEPT !.mem = MemPut(@, u16(addr), v)]

\* read16(uint16_t addr): the second index is addr + 1 computed in int, so it
\* is MEM_SIZE when addr = 0xFFFF.  Reading mem[MEM_SIZE] is undefined; the
\* byte obtained is u, which the caller chooses freely.
read16(s, addr, u) ==
    [v |-> MemAt(s.mem, addr)
           + 256 * (IF addr + 1 < MEM_SIZE THEN MemAt(s.mem, addr + 1) ELSE u),
     s |-> [s EXCEPT !.ub = @ \/ (addr + 1 >= MEM_SIZE)]]

\* write16(uint16_t addr, uint16_t v): same index arithmetic.  Writing
\* mem[MEM_SIZE] is undefined: no byte of mem changes, and the byte that
\* follows the array in the object (inte) takes a value u decides.
write16(s, addr, v, u) ==
    LET lo == [s EXCEPT !.mem = MemPut(@, addr, v % 256)]
    IN  IF addr + 1 < MEM_SIZE
        THEN [lo EXCEPT !.mem = MemPut(@, addr + 1, v \div 256)]
        ELSE [lo EXCEPT !.ub = TRUE, !.inte = (u % 2 = 1)]

\* next8 whose PC is kept in a wider integer and does not wrap
next8_no_wrap(s) == [v |-> MemAt(s.mem, s.PC), s |-> [s EXCEPT !.PC = @ + 1]]

\* next8(): mem[PC++], PC a uint16_t
next8(s) == [v |-> MemAt(s.mem, s.PC), s |-> [s EXCEPT !.PC = u16(@ + 1)]]

next16(s) ==
    LET lo == next8(s)
        hi == next8(lo.s)
    IN  [v |-> lo.v + 256 * hi.v, s |-> hi.s]

push16(s, v, u) ==
    LET t == [s EXCEPT !.SP = u16(@ - 2)]
    IN  write16(t, t.SP, v, u)

pop16(s, u) ==
    LET r == read16(s, s.SP, u)
    IN  [v |-> r.v, s |-> [r.s EXCEPT !.SP = u16(@ + 2)]]

-----------------------------------------------------------------------------
(* Internal helpers of cpu8080.cpp.                                        *)

\* even parity: v ^= v >> 4; v ^= v >> 2; v ^= v >> 1; return (v & 1) == 0
parity(v) ==
    LET v1 == u8(BitXor(v,  v  \div 16))
        v2 == u8(BitXor(v1, v1 \div 4))
        v3 == u8(BitXor(v2, v2 \div 2))
    IN  BitAnd(v3, 1) = 0

\* update_szp that rebuilds F from the fixed pattern, keeping only AC and CY
update_szp_rebuilds_f(s, result) ==
    [s EXCEPT !.F = FLAG_FIXED
                    + (IF HasBit(result, 128) THEN FLAG_S ELSE 0)
                    + (IF result = 0 THEN FLAG_Z ELSE 0)
                    + (IF HasBit(@, FLAG_AC) THEN FLAG_AC ELSE 0)
                    + (IF parity(result) THEN FLAG_P ELSE 0)
                    + (IF HasBit(@, FLAG_CY) THEN FLAG_CY ELSE 0)]

update_szp(s, result) ==
    set_p(set_z(set_s(s, HasBit(result, 128)), result = 0), parity(result))

\* update_flags_add whose AC test leaves the carry-in out
update_flags_add_no_carry_in(s, full, lhs, rhs, carry_in) ==
    LET result == u8(full)
        s1 == update_szp(s, result)
        s2 == set_cy(s1, full > 255)
    IN  set_ac(s2, (BitAnd(lhs, 15) + BitAnd(rhs, 15)) > 15)

\* full is the uint16_t sum the caller computed
update_flags_add(s, full, lhs, rhs, carry_in) ==
    LET result == u8(full)
        s1 == update_szp(s, result)
        s2 == set_cy(s1, full > 255)
    IN  set_ac(s2, (BitAnd(lhs, 15) + BitAnd(rhs, 15) + carry_in) > 15)

\* update_flags_sub whose nibble difference is taken in uint8_t, where it is
\* never negative
update_flags_sub_unsigned(s, lhs, rhs, borrow_in) ==
    LET full   == u16(lhs - rhs - borrow_in)
        result == u8(full)
        s1 == update_szp(s, result)
        s2 == set_cy(s1, full > 255)
    IN  set_ac(s2, u8(BitAnd(lhs, 15) - BitAnd(rhs, 15) - borrow_in) < 0)

\* update_flags_sub whose AC is the carry out of bit 3 of the complement
\* addition, set when the low nibble does not borrow
update_flags_sub_carry_sense(s, lhs, rhs, borrow_in) ==
    LET full   == u16(lhs - rhs - borrow_in)
        result == u8(full)
        s1 == update_szp(s, result)
        s2 == set_cy(s1, full > 255)
    IN  set_ac(s2, (BitAnd(lhs, 15) - BitAnd(rhs, 15) - borrow_in) >= 0)

\* full = uint16_t(lhs) - uint16_t(rhs) - uint16_t(borrow_in): the operands are
\* promoted to int, the difference is converted to uint16_t.  The nibble
\* difference of the AC test has type int (uint8_t & int), so it can be negative.
update_flags_sub(s, lhs, rhs, borrow_in) ==
    LET full   == u16(lhs - rhs - borrow_in)
        result == u8(full)
        s1 == update_szp(s, result)
        s2 == set_cy(s1, full > 255)
    IN  set_ac(s2, (BitAnd(lhs, 15) - BitAnd(rhs, 15) - borrow_in) < 0)

reg_read(s, field) ==
    LET k == BitAnd(field, 7)
    IN
    CASE k = 0 -> s.B
      [] k = 1 -> s.C
      [] k = 2 -> s.D
      [] k = 3 -> s.E
      [] k = 4 -> s.H
      [] k = 5 -> s.L
      [] k = 6 -> MemAt(s.mem, HL(s))
      [] k = 7 -> s.A

reg_write(s, field, val) ==
    LET k == BitAnd(field, 7)
    IN
    CASE k = 0 -> [s EXCEPT !.B = val]
      [] k = 1 -> [s EXCEPT !.C = val]
      [] k = 2 -> [s EXCEPT !.D = val]
      [] k = 3 -> [s EXCEPT !.E = val]
      [] k = 4 -> [s EXCEPT !.H = val]
      [] k = 5 -> [s EXCEPT !.L = val]
      [] k = 6 -> [s EXCEPT !.mem = MemPut(@, HL(s), val)]
      [] k = 7 -> [s EXCEPT !.A = val]

rp_read(s, rp) ==
    LET k == BitAnd(rp, 3)
    IN
    CASE k = 0 -> BC(s)
      [] k = 1 -> DE(s)
      [] k = 2 -> HL(s)
      [] k = 3 -> s.SP

rp_write(s, rp, val) ==
    LET k == BitAnd(rp, 3)
    IN
    CASE k = 0 -> setBC(s, val)
      [] k = 1 -> setDE(s, val)
      [] k = 2 -> setHL(s, val)
      [] k = 3 -> [s EXCEPT !.SP = val]

rp_read_psw(s, rp) ==
    IF BitAnd(rp, 3) = 3 THEN PSW(s) ELSE rp_read(s, rp)

rp_write_psw(s, rp, val) ==
    IF BitAnd(rp, 3) = 3 THEN setPSW(s, val) ELSE rp_write(s, rp, val)

\* condition with the sense of the two carry cases exchanged
condition_carry_swapped(s, ccc) ==
    LET k == BitAnd(ccc, 7)
    IN
    CASE k = 0 -> ~flag_z(s)
      [] k = 1 -> flag_z(s)
      [] k = 2 -> flag_cy(s)
      [] k = 3 -> ~flag_cy(s)
      [] k = 4 -> ~flag_p(s)
      [] k = 5 -> flag_p(s)
      [] k = 6 -> ~flag_s(s)
      [] k = 7 -> flag_s(s)

condition(s, ccc) ==
    LET k == BitAnd(ccc, 7)
    IN
    CASE k = 0 -> ~flag_z(s)
      [] k = 1 -> flag_z(s)
      [] k = 2 -> ~flag_cy(s)
      [] k = 3 -> flag_cy(s)
      [] k = 4 -> ~flag_p(s)
      [] k = 5 -> flag_p(s)
      [] k = 6 -> ~flag_s(s)
      [] k = 7 -> flag_s(s)

-----------------------------------------------------------------------------
(* Step8080 (cpu8080.cpp:125-616).                                         *)

\* what one call leaves behind: the mutated state, the returned cycle count
\* and the handler invocations it made
Ret(s, c) == [s |-> s, cycles |-> c, calls |-> <<>>]

\* DAA with new_cy computed from the accumulator alone: a carry that was set
\* is cleared when A <= 0x99
DAA_drops_carry(s) ==
    LET lo     == BitAnd(s.A, 15)
        low    == flag_ac(s) \/ lo > 9
        high   == flag_cy(s) \/ s.A > \h99
        corr   == BitOr(IF low THEN \h06 ELSE 0, IF high THEN \h60 ELSE 0)
        new_cy == s.A > \h99
        s1     == set_ac(s, (BitAnd(s.A, 15) + BitAnd(corr, 15)) > 15)
        s2     == [s1 EXCEPT !.A = u8(@ + corr)]
        s3     == update_szp(s2, s2.A)
    IN  Ret(set_cy(s3, new_cy), 4)

\* case 0x27 (cpu8080.cpp:341-360)
DAA(s) ==
    LET lo     == BitAnd(s.A, 15)
        low    == flag_ac(s) \/ lo > 9
        high   == flag_cy(s) \/ s.A > \h99
        corr   == BitOr(IF low THEN \h06 ELSE 0, IF high THEN \h60 ELSE 0)
        new_cy == high
        s1     == set_ac(s, (BitAnd(s.A, 15) + BitAnd(corr, 15)) > 15)
        s2     == [s1 EXCEPT !.A = u8(@ + corr)]
        s3     == update_szp(s2, s2.A)
    IN  Ret(set_cy(s3, new_cy), 4)

\* case 0x07 (cpu8080.cpp:441-446)
RLC(s) ==
    LET msb == BitAnd(s.A \div 128, 1)
        s1  == [s EXCEPT !.A = u8(BitOr(@ * 2, msb))]
    IN  Ret(set_cy(s1, msb # 0), 4)

\* case 0x0F (cpu8080.cpp:449-454)
RRC(s) ==
    LET lsb == BitAnd(s.A, 1)
        s1  == [s EXCEPT !.A = u8(BitOr(@ \div 2, lsb * 128))]
    IN  Ret(set_cy(s1, lsb # 0), 4)

\* RAL that feeds bit 7 instead of the carry into bit 0, as RLC does
RAL_around_carry(s) ==
    LET msb == BitAnd(s.A \div 128, 1)
        s1  == [s EXCEPT !.A = u8(BitOr(@ * 2, msb))]
    IN  Ret(set_cy(s1, msb # 0), 4)

\* case 0x17 (cpu8080.cpp:457-462)
RAL(s) ==
    LET msb == BitAnd(s.A \div 128, 1)
        s1  == [s EXCEPT !.A = u8(BitOr(@ * 2, IF flag_cy(s) THEN 1 ELSE 0))]
    IN  Ret(set_cy(s1, msb # 0), 4)

\* case 0x1F (cpu8080.cpp:465-470)
RAR(s) ==
    LET lsb == BitAnd(s.A, 1)
        s1  == [s EXCEPT !.A = u8(BitOr(@ \div 2,
                                       IF flag_cy(s) THEN \h80 ELSE 0))]
    IN  Ret(set_cy(s1, lsb # 0), 4)

\* INR that takes its flags from the adder: CY becomes the carry out of bit 7
INR_through_adder(s, ddd) ==
    LET v   == reg_read(s, ddd)
        res == u8(v + 1)
        s1  == update_flags_add(s, v + 1, v, 1, 0)
    IN  Ret(reg_write(s1, ddd, res), IF ddd = 6 THEN 10 ELSE 5)

\* INR D (cpu8080.cpp:299-308)
INR(s, ddd) ==
    LET v   == reg_read(s, ddd)
        res == u8(v + 1)
        s1  == set_ac(s, BitAnd(v, 15) = 15)
        s2  == update_szp(s1, res)
    IN  Ret(reg_write(s2, ddd, res), IF ddd = 6 THEN 10 ELSE 5)

\* DCR D (cpu8080.cpp:311-320)
DCR(s, ddd) ==
    LET v   == reg_read(s, ddd)
        res == u8(v - 1)
        s1  == set_ac(s, BitAnd(v, 15) = 0)
        s2  == update_szp(s1, res)
    IN  Ret(reg_write(s2, ddd, res), IF ddd = 6 THEN 10 ELSE 5)

\* DAD whose sum is held in a uint16_t: the carry out of bit 15 is lost
DAD_sum_truncated(s, rp) ==
    LET res == u16(HL(s) + rp_read(s, rp))
        s1  == set_cy(s, res > 65535)
    IN  Ret(setHL(s1, u16(res)), 10)

\* DAD RP (cpu8080.cpp:333-338); res is a uint32_t
DAD(s, rp) ==
    LET res == HL(s) + rp_read(s, rp)
        s1  == set_cy(s, res > 65535)
    IN  Ret(setHL(s1, u16(res)), 10)

\* Jccc that fetches the address only when it jumps: PC0+1 when not taken
Jccc_fetch_if_taken(s, op) ==
    LET addr == next16(s)
        ccc  == BitAnd(op \div 8, 7)
    IN  Ret(IF condition(s, ccc)
            THEN [addr.s EXCEPT !.PC = addr.v] ELSE s, 10)

\* Jccc a (cpu8080.cpp:497-503)
Jccc(s, op) ==
    LET addr == next16(s)
        ccc  == BitAnd(op \div 8, 7)
    IN  Ret(IF condition(addr.s, ccc)
            THEN [addr.s EXCEPT !.PC = addr.v] ELSE addr.s, 10)

\* IN that reads 0x00 from a bus without handler
IN_p_pulled_low(s, bus, inp) ==
    LET port == next8(s)
    IN  IF bus.in_handler
        THEN [s |-> [port.s EXCEPT !.A = inp], cycles |-> 10,
              calls |-> << <<"in", port.v, inp>> >>]
        ELSE Ret([port.s EXCEPT !.A = \h00], 10)

\* IN p (cpu8080.cpp:582-589); inp is what in_handler(port) returns, kept
\* with the invocation
IN_p(s, bus, inp) ==
    LET port == next8(s)
    IN  IF bus.in_handler
        THEN [s |-> [port.s EXCEPT !.A = inp], cycles |-> 10,
              calls |-> << <<"in", port.v, inp>> >>]
        ELSE Ret([port.s EXCEPT !.A = \hFF], 10)

\* OUT p (cpu8080.cpp:592-597)
OUT_p(s, bus) ==
    LET port == next8(s)
    IN  IF bus.out_handler
        THEN [s |-> port.s, cycles |-> 10,
              calls |-> << <<"out", port.v, port.s.A>> >>]
        ELSE Ret(port.s, 10)

\* the case labels that share a body with an official opcode
\* (cpu8080.cpp:138-145, 487-488, 506-507, 529-530)
NopOps  == {\h00, \h08, \h10, \h18, \h20, \h28, \h30, \h38}
JmpOps  == {\hC3, \hCB}
CallOps_documented == {\hCD}
CallOps == {\hCD, \hDD, \hED, \hFD}
RetOps  == {\hC9, \hD9}

\* the switch on the fetched opcode; s is the state after the opcode fetch.
\* bus is the IOBus, inp the byte an installed in_handler returns, u the
\* outcome of an undefined access (see read16 / write16).
Execute(s, op, bus, u, inp) ==
    LET ddd == BitAnd(op \div 8, 7)
        sss == BitAnd(op, 7)
        rp  == BitAnd(op \div 16, 3)
    IN
    CASE op \in NopOps ->                                                \* NOP
            Ret(s, 4)
      [] op = \h76 ->                                                    \* HLT
            Ret([s EXCEPT !.halted = TRUE], 7)
      [] op \in {\h06, \h0E, \h16, \h1E, \h26, \h2E, \h36, \h3E} ->      \* MVI D,#
            LET imm == next8(s)
            IN  Ret(reg_write(imm.s, ddd, imm.v), IF ddd = 6 THEN 10 ELSE 7)
      [] op \in {\h01, \h11, \h21, \h31} ->                              \* LXI RP,#
            LET imm == next16(s)
            IN  Ret(rp_write(imm.s, rp, imm.v), 10)
      [] op = \h3A ->                                                    \* LDA a
            LET addr == next16(s)
            IN  Ret([addr.s EXCEPT !.A = read8(addr.s, addr.v)], 13)
      [] op = \h32 ->                                                    \* STA a
            LET addr == next16(s)
            IN  Ret(write8(addr.s, addr.v, addr.s.A), 13)
      [] op = \h2A ->                                                    \* LHLD a
            LET addr == next16(s)
            IN  Ret([addr.s EXCEPT !.L = read8(addr.s, addr.v),
                                   !.H = read8(addr.s, addr.v + 1)], 16)
      [] op = \h22 ->                                                    \* SHLD a
            LET addr == next16(s)
                s1   == write8(addr.s, addr.v, addr.s.L)
            IN  Ret(write8(s1, addr.v + 1, s1.H), 16)
      [] op = \h0A -> Ret([s EXCEPT !.A = read8(s, BC(s))], 7)            \* LDAX BC
      [] op = \h1A -> Ret([s EXCEPT !.A = read8(s, DE(s))], 7)            \* LDAX DE
      [] op = \h02 -> Ret(write8(s, BC(s), s.A), 7)                      \* STAX BC
      [] op = \h12 -> Ret(write8(s, DE(s), s.A), 7)                      \* STAX DE
      [] op = \hEB ->                                                    \* XCHG
            LET tmp == HL(s)
            IN  Ret(setDE(setHL(s, DE(s)), tmp), 4)
      [] op \in \h80 .. \h87 ->                                          \* ADD S
            LET rval == reg_read(s, sss)
                res  == u16(s.A + rval)
                s1   == update_flags_add(s, res, s.A, rval, 0)
            IN  Ret([s1 EXCEPT !.A = u8(res)], IF sss = 6 THEN 7 ELSE 4)
      [] op = \hC6 ->                                                    \* ADI #
            LET imm == next8(s)
                res == u16(imm.s.A + imm.v)
                s1  == update_flags_add(imm.s, res, imm.s.A, imm.v, 0)
            IN  Ret([s1 EXCEPT !.A = u8(res)], 7)
      [] op \in \h88 .. \h8F ->                                          \* ADC S
            LET rval == reg_read(s, sss)
                cy   == IF flag_cy(s) THEN 1 ELSE 0
                res  == u16(s.A + rval + cy)
                s1   == update_flags_add(s, res, s.A, rval, cy)
            IN  Ret([s1 EXCEPT !.A = u8(res)], IF sss = 6 THEN 7 ELSE 4)
      [] op = \hCE ->                                                    \* ACI #
            LET imm == next8(s)
                cy  == IF flag_cy(imm.s) THEN 1 ELSE 0
                res == u16(imm.s.A + imm.v + cy)
                s1  == update_flags_add(imm.s, res, imm.s.A, imm.v, cy)
            IN  Ret([s1 EXCEPT !.A = u8(res)], 7)
      [] op \in \h90 .. \h97 ->                                          \* SUB S
            LET rval == reg_read(s, sss)
                prev == s.A
                s1   == update_flags_sub(s, s.A, rval, 0)
            IN  Ret([s1 EXCEPT !.A = u8(prev - rval)], IF sss = 6 THEN 7 ELSE 4)
      [] op = \hD6 ->                                                    \* SUI #
            LET imm  == next8(s)
                prev == imm.s.A
                s1   == update_flags_sub(imm.s, imm.s.A, imm.v, 0)
            IN  Ret([s1 EXCEPT !.A = u8(prev - imm.v)], 7)
      [] op \in \h98 .. \h9F ->                                          \* SBB S
            LET rval == reg_read(s, sss)
                cy   == IF flag_cy(s) THEN 1 ELSE 0
                prev == s.A
                s1   == update_flags_sub(s, s.A, rval, cy)
            IN  Ret([s1 EXCEPT !.A = u8(prev - rval - cy)],
                    IF sss = 6 THEN 7 ELSE 4)
      [] op = \hDE ->                                                    \* SBI #
            LET imm  == next8(s)
                cy   == IF flag_cy(imm.s) THEN 1 ELSE 0
                prev == imm.s.A
                s1   == update_flags_sub(imm.s, imm.s.A, imm.v, cy)
            IN  Ret([s1 EXCEPT !.A = u8(prev - imm.v - cy)], 7)
      [] op \in {\h04, \h0C, \h14, \h1C, \h24, \h2C, \h34, \h3C} ->      \* INR D
            INR(s, ddd)
      [] op \in {\h05, \h0D, \h15, \h1D, \h25, \h2D, \h35, \h3D} ->      \* DCR D
            DCR(s, ddd)
      [] op \in {\h03, \h13, \h23, \h33} ->                              \* INX RP
            Ret(rp_write(s, rp, u16(rp_read(s, rp) + 1)), 5)
      [] op \in {\h0B, \h1B, \h2B, \h3B} ->                              \* DCX RP
            Ret(rp_write(s, rp, u16(rp_read(s, rp) - 1)), 5)
      [] op \in {\h09, \h19, \h29, \h39} -> DAD(s, rp)                   \* DAD RP
      [] op = \h27 -> DAA(s)                                             \* DAA
      [] op \in \hA0 .. \hA7 ->                                          \* ANA S
            LET rval == reg_read(s, sss)
                s1   == set_ac(s, BitAnd(BitOr(s.A, rval), 8) # 0)
                s2   == [s1 EXCEPT !.A = BitAnd(@, rval)]
                s3   == update_szp(s2, s2.A)
            IN  Ret(set_cy(s3, FALSE), IF sss = 6 THEN 7 ELSE 4)
      [] op = \hE6 ->                                                    \* ANI #
            LET imm == next8(s)
                s1  == set_ac(imm.s, BitAnd(BitOr(imm.s.A, imm.v), 8) # 0)
                s2  == [s1 EXCEPT !.A = BitAnd(@, imm.v)]
                s3  == update_szp(s2, s2.A)
            IN  Ret(set_cy(s3, FALSE), 7)
      [] op \in \hB0 .. \hB7 ->                                          \* ORA S
            LET s1 == [s EXCEPT !.A = BitOr(@, reg_read(s, sss))]
                s2 == update_szp(s1, s1.A)
            IN  Ret(set_ac(set_cy(s2, FALSE), FALSE), IF sss = 6 THEN 7 ELSE 4)
      [] op = \hF6 ->                                                    \* ORI #
            LET imm == next8(s)
                s1  == [imm.s EXCEPT !.A = BitOr(@, imm.v)]
                s2  == update_szp(s1, s1.A)
            IN  Ret(set_ac(set_cy(s2, FALSE), FALSE), 7)
      [] op \in \hA8 .. \hAF ->                                          \* XRA S
            LET s1 == [s EXCEPT !.A = BitXor(@, reg_read(s, sss))]
                s2 == update_szp(s1, s1.A)
            IN  Ret(set_ac(set_cy(s2, FALSE), FALSE), IF sss = 6 THEN 7 ELSE 4)
      [] op = \hEE ->                                                    \* XRI #
            LET imm == next8(s)
                s1  == [imm.s EXCEPT !.A = BitXor(@, imm.v)]
                s2  == update_szp(s1, s1.A)
            IN  Ret(set_ac(set_cy(s2, FALSE), FALSE), 7)
      [] op \in \hB8 .. \hBF ->                                          \* CMP S
            LET rval == reg_read(s, sss)
            IN  Ret(update_flags_sub(s, s.A, rval, 0), IF sss = 6 THEN 7 ELSE 4)
      [] op = \hFE ->                                                    \* CPI #
            LET imm == next8(s)
            IN  Ret(update_flags_sub(imm.s, imm.s.A, imm.v, 0), 7)
      [] op = \h07 -> RLC(s)                                             \* RLC
      [] op = \h0F -> RRC(s)                                             \* RRC
      [] op = \h17 -> RAL(s)                                             \* RAL
      [] op = \h1F -> RAR(s)                                             \* RAR
      [] op = \h2F -> Ret([s EXCEPT !.A = BitNot8(@)], 4)                \* CMA
      [] op = \h3F -> Ret(set_cy(s, ~flag_cy(s)), 4)                     \* CMC
      [] op = \h37 -> Ret(set_cy(s, TRUE), 4)                            \* STC
      [] op \in JmpOps ->                                                \* JMP a
            LET addr == next16(s)
            IN  Ret([addr.s EXCEPT !.PC = addr.v], 10)
      [] op \in {\hC2, \hCA, \hD2, \hDA, \hE2, \hEA, \hF2, \hFA} ->      \* Jccc a
            Jccc(s, op)
      [] op \in CallOps ->                                               \* CALL a
            LET addr == next16(s)
                s1   == push16(addr.s, addr.s.PC, u)
            IN  Ret([s1 EXCEPT !.PC = addr.v], 17)
      [] op \in {\hC4, \hCC, \hD4, \hDC, \hE4, \hEC, \hF4, \hFC} ->      \* Cccc a
            LET addr == next16(s)
                ccc  == BitAnd(op \div 8, 7)
            IN  IF condition(addr.s, ccc)
                THEN Ret([push16(addr.s, addr.s.PC, u) EXCEPT !.PC = addr.v], 17)
                ELSE Ret(addr.s, 11)
      [] op \in RetOps ->                                                \* RET
            LET top == pop16(s, u)
            IN  Ret([top.s EXCEPT !.PC = top.v], 10)
      [] op \in {\hC0, \hC8, \hD0, \hD8, \hE0, \hE8, \hF0, \hF8} ->      \* Rccc
            LET ccc == BitAnd(op \div 8, 7)
                top == pop16(s, u)
            IN  IF condition(s, ccc)
                THEN Ret([top.s EXCEPT !.PC = top.v], 11)
                ELSE Ret(s, 5)
      [] op \in {\hC7, \hCF, \hD7, \hDF, \hE7, \hEF, \hF7, \hFF} ->      \* RST n
            LET s1 == push16(s, s.PC, u)
            IN  Ret([s1 EXCEPT !.PC = BitAnd(op, \h38)], 11)
      [] op = \hE9 -> Ret([s EXCEPT !.PC = HL(s)], 5)                    \* PCHL
      [] op \in {\hC5, \hD5, \hE5, \hF5} ->                              \* PUSH RP
            Ret(push16(s, rp_read_psw(s, rp), u), 11)
      [] op \in {\hC1, \hD1, \hE1, \hF1} ->                              \* POP RP
            LET top == pop16(s, u)
            IN  Ret(rp_write_psw(top.s, rp, top.v), 10)
      [] op = \hE3 ->                                                    \* XTHL
            LET top == read16(s, s.SP, u)
                s1  == write16(top.s, top.s.SP, HL(top.s), u)
            IN  Ret(setHL(s1, top.v), 18)
      [] op = \hF9 -> Ret([s EXCEPT !.SP = HL(s)], 5)                    \* SPHL
      [] op = \hDB -> IN_p(s, bus, inp)                                  \* IN p
      [] op = \hD3 -> OUT_p(s, bus)                                      \* OUT p
      [] op = \hFB -> Ret([s EXCEPT !.inte = TRUE], 4)                   \* EI
      [] op = \hF3 -> Ret([s EXCEPT !.inte = FALSE], 4)                  \* DI
      [] OTHER ->
            IF op >= \h40 /\ op <= \h7F                                  \* MOV D,S
            THEN LET src == reg_read(s, sss)
                 IN  Ret(reg_write(s, ddd, src),
                         IF sss = 6 \/ ddd = 6 THEN 7 ELSE 5)
            ELSE Ret(s, 4)

\* Step8080 without "if (s.halted) return 4;": a halted machine goes on
\* fetching and executing
Step8080_no_halt_check(s, bus, u, inp) ==
    LET f == next8([s EXCEPT !.ub = FALSE])
    IN  Execute(f.s, f.v, bus, u, inp) @@ [fetched |-> TRUE, op |-> f.v]

\* Step8080 whose early return comes after the opcode fetch: a halted machine
\* still advances PC
Step8080_halt_after_fetch(s, bus, u, inp) ==
    LET f == next8([s EXCEPT !.ub = FALSE])
    IN  IF s.halted
        THEN [s |-> f.s, cycles |-> 4, calls |-> <<>>, fetched |-> FALSE, op |-> 0]
        ELSE Execute(f.s, f.v, bus, u, inp) @@ [fetched |-> TRUE, op |-> f.v]

\* one call of Step8080: the early return of a halted machine, else fetch
\* and execute.  fetched tells whether an opcode was fetched, op which.
Step8080(s, bus, u, inp) ==
    LET s0 == [s EXCEPT !.ub = FALSE]
    IN  IF s0.halted
        THEN [s |-> s0, cycles |-> 4, calls |-> <<>>, fetched |-> FALSE, op |-> 0]
        ELSE LET f == next8(s0)
             IN  Execute(f.s, f.v, bus, u, inp) @@ [fetched |-> TRUE, op |-> f.v]

-----------------------------------------------------------------------------
(* The caller of Step8080.  State8080 and IOBus are plain structs: a caller *)
(* (the driver of main.cpp, a test) builds the state, fills memory and then *)
(* calls Step8080 some number of times.                                     *)

\* bytes an installed in_handler may return (main.cpp:43-46 returns 0xFF)
InBytes == {\h00, \h5A, \hFF}

\* the byte an undefined read of mem[MEM_SIZE] yields, and whose low bit an
\* undefined write leaves in inte: the values of the bool that follows the
\* array (0, 1) and two arbitrary bytes
UbBytes == {\h00, \h01, \h28, \hFF}

\* the outcomes of an undefined access, when the call r0 made one
UbOutcomes(r0) == IF r0.s.ub THEN UbBytes ELSE {0}

\* the bytes in_handler may return, when the call r0 invoked it
InOutcomes(r0) ==
    IF r0.calls # <<>> /\ r0.calls[1][1] = "in" THEN InBytes ELSE {\hFF}

\* mem[addr .. addr+Len(bytes)-1] = bytes, addresses taken mod 2^16: what a
\* caller does when it places code or data (main.cpp:75, 80)
RECURSIVE Place(_, _, _)
Place(m, addr, bytes) ==
    IF bytes = <<>> THEN m
    ELSE Place(MemPut(m, u16(addr), Head(bytes)), addr + 1, Tail(bytes))

\* a caller that makes n calls on machine state s with bus b
Start(s, b, n) ==
    /\ state = s
    /\ io = b
    /\ cycles = 0
    /\ opcode = -1
    /\ calls = <<>>
    /\ trail = <<>>
    /\ left = n
    /\ driver = "none"

\* trail[1] is taken when the last call starts, trail[2] when the call before
\* it started: the machine state, and the cycle count and opcode left by the
\* call that came before
Snapshot == [s |-> state, cycles |-> cycles, opcode |-> opcode]

\* a call has been made, and the state it started from
Called == trail # <<>>
pre    == trail[1].s

\* Step8080(state, io), main.cpp:106
Step ==
    /\ left > 0
    /\ \E r0 \in {Step8080(state, io, 0, \hFF)} :
       \E u \in UbOutcomes(r0), inp \in InOutcomes(r0) :
       \E r \in {IF u = 0 /\ inp = \hFF THEN r0 ELSE Step8080(state, io, u, inp)} :
         /\ state'  = r.s
         /\ cycles' = r.cycles
         /\ calls'  = r.calls
         /\ opcode' = IF r.fetched THEN r.op ELSE opcode
    /\ trail' = <<Snapshot>> \o (IF trail = <<>> THEN <<>> ELSE <<trail[1]>>)
    /\ left'  = left - 1
    /\ UNCHANGED io

Next == Step /\ UNCHANGED driver

-----------------------------------------------------------------------------
(* LoadBinary (cpu8080.cpp:619-635): bytes is the content of the file, or   *)
(* "unreadable" when fopen fails.  ok is FALSE when the function throws.   *)

\* LoadBinary that rejects size >= 0x10000 - offset: an image that ends
\* exactly at 0xFFFF is refused
LoadBinary_rejects_exact_fit(s, bytes, offset) ==
    IF bytes = "unreadable" THEN [s |-> s, ok |-> FALSE]
    ELSE IF Len(bytes) >= MEM_SIZE - offset THEN [s |-> s, ok |-> FALSE]
    ELSE [s |-> [s EXCEPT !.mem = Place(@, offset, bytes)], ok |-> TRUE]

LoadBinary(s, bytes, offset) ==
    IF bytes = "unreadable" THEN [s |-> s, ok |-> FALSE]
    ELSE IF Len(bytes) > MEM_SIZE - offset THEN [s |-> s, ok |-> FALSE]
    ELSE [s |-> [s EXCEPT !.mem = Place(@, offset, bytes)], ok |-> TRUE]

-----------------------------------------------------------------------------
(* Spec: a freshly constructed machine, a program image loaded at address   *)
(* 0, then MaxCalls calls of Step8080.  The image is any sequence of at     *)
(* most MaxInstr instructions of Menu; the rest of memory stays zero.       *)

MaxInstr == 2
MaxCalls == 3

Menu ==
    { <<\h00>>,                \* NOP
      <<\h76>>,                \* HLT
      <<\h3E, \h9B>>,          \* MVI A,9Bh
      <<\h36, \h28>>,          \* MVI M,28h
      <<\h31, \hFF, \hFF>>,    \* LXI SP,FFFFh
      <<\h21, \h05, \h00>>,    \* LXI H,0005h
      <<\h3A, \h01, \h00>>,    \* LDA 0001h
      <<\h32, \h02, \h00>>,    \* STA 0002h
      <<\hEB>>,                \* XCHG
      <<\h80>>,                \* ADD B
      <<\h9F>>,                \* SBB A
      <<\h3C>>,                \* INR A
      <<\h3D>>,                \* DCR A
      <<\h33>>,                \* INX SP
      <<\h3B>>,                \* DCX SP
      <<\h09>>,                \* DAD B
      <<\h27>>,                \* DAA
      <<\hAF>>,                \* XRA A
      <<\h07>>,                \* RLC
      <<\h37>>,                \* STC
      <<\hC3, \h04, \h00>>,    \* JMP 0004h
      <<\hCA, \h00, \h00>>,    \* JZ 0000h
      <<\hCD, \h03, \h00>>,    \* CALL 0003h
      <<\hC9>>,                \* RET
      <<\hD8>>,                \* RC
      <<\hDF>>,                \* RST 3
      <<\hE9>>,                \* PCHL
      <<\hF5>>,                \* PUSH PSW
      <<\hF1>>,                \* POP PSW
      <<\hC1>>,                \* POP B
      <<\hE3>>,                \* XTHL
      <<\hF9>>,                \* SPHL
      <<\hDB, \h10>>,          \* IN 10h
      <<\hD3, \h10>>,          \* OUT 10h
      <<\hFB>>,                \* EI
      <<\h47>>                 \* MOV B,A
    }

\* the byte sequences of at most n instructions of Menu
RECURSIVE Programs(_)
Programs(n) ==
    IF n = 0 THEN {<<>>}
    ELSE Programs(n - 1) \cup {p \o i : p \in Programs(n - 1), i \in Menu}

\* the IOBus with both handlers installed (main.cpp:40-53) and with none
Buses == {[in_handler |-> TRUE,  out_handler |-> TRUE],
          [in_handler |-> FALSE, out_handler |-> FALSE]}

Init ==
    \E image \in Programs(MaxInstr), b \in Buses :
        Start(LoadBinary(Fresh, image, 0).s, b, MaxCalls)

Spec == Init /\ [][Next]_vars

-----------------------------------------------------------------------------
(* Specifications that draw the machine state a caller has built, place one *)
(* instruction (or a pair) at PC and make the calls that execute it.  Every *)
(* register value drawn is one a program can produce (MVI, LXI, POP).       *)

\* the values of F with bit 1 set and bits 3 and 5 clear
FlagBytes ==
    {s * FLAG_S + z * FLAG_Z + ac * FLAG_AC + p * FLAG_P + FLAG_FIXED + cy * FLAG_CY :
        s \in {0, 1}, z \in {0, 1}, ac \in {0, 1}, p \in {0, 1}, cy \in {0, 1}}

FullBus == [in_handler |-> TRUE, out_handler |-> TRUE]

\* addresses of the instruction: low memory, the CP/M load address, and the
\* three places where a 3-byte instruction wraps past 0xFFFF
CodeAddrs == {\h0000, \h0100, \hFFFD, \hFFFE, \hFFFF}

\* stack pointers: the wrap cases, and one in the middle of memory
StackTops == {\h0000, \h0001, \h0002, \h2400, \hFFFF}

\* machine state s with the byte sequence code placed at its PC
WithCode(s, code) == [s EXCEPT !.mem = Place(@, s.PC, code)]

\* ---- conditional CALL ----
CcccOps == {\hC4, \hCC, \hD4, \hDC, \hE4, \hEC, \hF4, \hFC}

CallCalls == 1

InitCall ==
    \E f \in FlagBytes, sp \in StackTops, pc \in CodeAddrs, op \in CcccOps,
       a \in {\h0000, \h1234} :
        Start(WithCode([Fresh EXCEPT !.F = f, !.SP = sp, !.PC = pc],
                       <<op, a % 256, a \div 256>>),
              FullBus, CallCalls)

SpecCall == InitCall /\ [][Next]_vars

\* ---- PUSH rp ; POP rp ----
StackCalls == 2

InitStack ==
    \E rp \in 0 .. 3, hi \in {\h00, \hAB}, lo \in FlagBytes \cup {\hFF},
       sp \in StackTops \cup {\h0103}, pc \in {\h0100, \hFFFF} :
        Start(WithCode(rp_write_psw([Fresh EXCEPT !.SP = sp, !.PC = pc],
                                    rp, hi * 256 + lo),
                       <<\hC5 + 16 * rp, \hC1 + 16 * rp>>),
              FullBus, StackCalls)

SpecStack == InitStack /\ [][Next]_vars

\* ---- arithmetic: every accumulator value, every operand, both carries ----
AluCalls == 1

\* CY clear with every other flag clear, CY set with every other flag set
AluFlags == {\h02, \hD7}

\* operands at the nibble and byte boundaries
EdgeBytes == {\h00, \h01, \h0F, \h10, \h3E, \h7F, \h80, \hFF}

\* the operand is in B for the register form and follows the opcode for the
\* immediate form
InitAlu(ops, values) ==
    \E a \in values, b \in values, f \in AluFlags, op \in ops :
        Start(WithCode([Fresh EXCEPT !.A = a, !.B = b, !.F = f], <<op, b>>),
              FullBus, AluCalls)

AddRegOps == {\h80, \h88}              \* ADD B, ADC B
AddImmOps == {\hC6, \hCE}              \* ADI, ACI
SubRegOps == {\h90, \h98, \hB8}        \* SUB B, SBB B, CMP B
SubImmOps == {\hD6, \hDE, \hFE}        \* SUI, SBI, CPI

\* the register forms on every pair of bytes, the immediate forms (the same
\* flag function, called with the fetched byte) on the boundary values
InitAdd == InitAlu(AddRegOps, Byte) \/ InitAlu(AddImmOps, EdgeBytes)
InitSub == InitAlu(SubRegOps, Byte) \/ InitAlu(SubImmOps, EdgeBytes)

SpecAdd == InitAdd /\ [][Next]_vars
SpecSub == InitSub /\ [][Next]_vars

\* ---- DAA: every accumulator value and every flag byte ----
InitDaa ==
    \E a \in Byte, f \in FlagBytes :
        Start(WithCode([Fresh EXCEPT !.A = a, !.F = f], <<\h27>>), FullBus, AluCalls)

SpecDaa == InitDaa /\ [][Next]_vars

-----------------------------------------------------------------------------
(* Properties.                                                              *)

\* the members of State8080 agree
SameMachine(s, t) == [s EXCEPT !.ub = FALSE] = [t EXCEPT !.ub = FALSE]

\* the byte at address a (taken mod 2^16) of machine state s
ByteAt(s, a) == MemAt(s.mem, a % 65536)

\* C1: every memory access of a call uses an index in 0..65535, addresses
\* wrapping mod 2^16: no call indexes mem outside the array, and a POP B whose
\* low byte is read at 0xFFFF takes its high byte from 0x0000.
C1_AccessesWrap ==
    /\ ~state.ub
    /\ (Called /\ ~pre.halted /\ ByteAt(pre, pre.PC) = \hC1)
          => /\ state.C = ByteAt(pre, pre.SP)
             /\ state.B = ByteAt(pre, pre.SP + 1)

\* C2: in every reachable state bit 1 of F is 1 and bits 3 and 5 are 0.
C2_FixedFlagBits ==
    /\ (state.F \div 2) % 2 = 1
    /\ (state.F \div 8) % 2 = 0
    /\ (state.F \div 32) % 2 = 0

\* C5: halted becomes true only in a call that fetched opcode 0x76, no call
\* sets it back to false, and whenever halted is true the last opcode
\* executed was 0x76.
C5_HaltedOnlyByHLT ==
    /\ state.halted => opcode = \h76
    /\ Called =>
          /\ pre.halted => state.halted
          /\ (state.halted /\ ~pre.halted) => ByteAt(pre, pre.PC) = \h76

\* HLT was executed and a later call has left the machine halted
C5_Witness ==
    /\ Len(trail) = 2
    /\ ~trail[2].s.halted
    /\ pre.halted
    /\ state.halted

\* C6: a call on a halted machine returns 4, invokes no handler and changes
\* no member of the state (no fetch: PC and the last opcode stay), every time.
C6_HaltedCallIsIdle ==
    (Called /\ pre.halted) =>
        /\ cycles = 4
        /\ calls = <<>>
        /\ SameMachine(state, pre)
        /\ opcode = trail[1].opcode

\* two calls in a row were made on a halted machine
C6_Witness ==
    /\ Len(trail) = 2
    /\ trail[2].s.halted
    /\ pre.halted
    /\ cycles = 4

-----------------------------------------------------------------------------
(* The last call as a caller sees it: it decoded LastOp from the state pre. *)

Decoded == Called /\ ~pre.halted
LastOp  == ByteAt(pre, pre.PC)
Imm8    == ByteAt(pre, pre.PC + 1)
Imm16   == ByteAt(pre, pre.PC + 1) + 256 * ByteAt(pre, pre.PC + 2)

\* bit i of byte v, and the flags of an F value
BitOf(v, i) == (v \div (2 ^ i)) % 2
CYof(f) == BitOf(f, 0)
Pof(f)  == BitOf(f, 2)
ACof(f) == BitOf(f, 4)
Zof(f)  == BitOf(f, 6)
Sof(f)  == BitOf(f, 7)

\* number of 1 bits of v
RECURSIVE Ones(_)
Ones(v) == IF v = 0 THEN 0 ELSE (v % 2) + Ones(v \div 2)

\* F holds S, Z, P of result r, the given AC and CY, and the fixed bits of f0
FlagsAre(f, r, ac, cy, f0) ==
    /\ Sof(f) = BitOf(r, 7)
    /\ Zof(f) = (IF r = 0 THEN 1 ELSE 0)
    /\ Pof(f) = (IF Ones(r) % 2 = 0 THEN 1 ELSE 0)
    /\ ACof(f) = (IF ac THEN 1 ELSE 0)
    /\ CYof(f) = (IF cy THEN 1 ELSE 0)
    /\ BitOf(f, 1) = BitOf(f0, 1)
    /\ BitOf(f, 3) = BitOf(f0, 3)
    /\ BitOf(f, 5) = BitOf(f0, 5)

\* condition ccc (NZ, Z, NC, C, PO, PE, P, M) on an F value
CondHolds(f, ccc) ==
    CASE ccc = 0 -> Zof(f) = 0
      [] ccc = 1 -> Zof(f) = 1
      [] ccc = 2 -> CYof(f) = 0
      [] ccc = 3 -> CYof(f) = 1
      [] ccc = 4 -> Pof(f) = 0
      [] ccc = 5 -> Pof(f) = 1
      [] ccc = 6 -> Sof(f) = 0
      [] ccc = 7 -> Sof(f) = 1

\* C3: with A = 0, F = 0x46 and CC 34 12 at PC, one call makes no call
\* instruction: PC is advanced by 3, SP is unchanged, 11 is returned.
C3_CallNotTaken ==
    (Decoded /\ pre.A = 0 /\ pre.F = \h46
        /\ LastOp = \hCC /\ Imm16 = \h1234) =>
        /\ state.PC = (pre.PC + 3) % 65536
        /\ state.SP = pre.SP
        /\ cycles = 11

\* C3, for opcode 0xDC: with A = 0, F = 0x46 and DC 34 12 (CC, call if carry) at
\* PC, one call makes no call instruction: PC is advanced by 3 mod 2^16, SP is
\* unchanged, 11 is returned.  (0xCC is CZ, which Z = 1 takes.)
C3_CarryCallNotTaken ==
    (Decoded /\ pre.A = 0 /\ pre.F = \h46
        /\ LastOp = \hDC /\ Imm16 = \h1234) =>
        /\ state.PC = (pre.PC + 3) % 65536
        /\ state.SP = pre.SP
        /\ state.mem = pre.mem
        /\ cycles = 11

\* CC a16 ran with CY = 0, with the instruction wrapping past 0xFFFF
C3_Witness ==
    /\ Decoded /\ pre.A = 0 /\ pre.F = \h46
    /\ LastOp = \hDC /\ Imm16 = \h1234
    /\ pre.PC = \hFFFE
    /\ state.PC = 1
    /\ cycles = 11

\* C4: a conditional call always consumes its two immediate bytes; not taken,
\* PC = PC0+3, SP and memory are unchanged and 11 is returned; taken, PC0+3 is
\* stored little-endian at SP0-2 (addresses mod 2^16), SP = SP0-2, PC = the
\* immediate address and 17 is returned.
C4_CondCall ==
    (Decoded /\ LastOp \in CcccOps) =>
        LET ccc == (LastOp - \hC4) \div 8
            ret == (pre.PC + 3) % 65536
        IN  IF CondHolds(pre.F, ccc)
            THEN /\ state.SP = (pre.SP - 2) % 65536
                 /\ ByteAt(state, pre.SP - 2) = ret % 256
                 /\ ByteAt(state, pre.SP - 1) = ret \div 256
                 /\ state.PC = Imm16
                 /\ cycles = 17
            ELSE /\ state.PC = ret
                 /\ state.SP = pre.SP
                 /\ state.mem = pre.mem
                 /\ cycles = 11

\* C7: PUSH rp immediately followed by POP rp, where the pushed word does not
\* cover the POP opcode, restores the pair (A and F for PSW) and SP, leaves
\* the high byte at old SP-1 and the low byte at old SP-2, and returns 11
\* then 10.
C7_PushPopRoundTrip ==
    (/\ Len(trail) = 2
     /\ ~trail[2].s.halted
     /\ ByteAt(trail[2].s, trail[2].s.PC) \in {\hC5, \hD5, \hE5, \hF5}
     /\ ByteAt(trail[2].s, trail[2].s.PC + 1)
            = ByteAt(trail[2].s, trail[2].s.PC) - 4
     /\ (trail[2].s.PC + 1) % 65536
            \notin {(trail[2].s.SP - 2) % 65536, (trail[2].s.SP - 1) % 65536}) =>
        LET s0 == trail[2].s
            rp == (ByteAt(s0, s0.PC) - \hC5) \div 16
            hi == CASE rp = 0 -> s0.B [] rp = 1 -> s0.D [] rp = 2 -> s0.H [] rp = 3 -> s0.A
            lo == CASE rp = 0 -> s0.C [] rp = 1 -> s0.E [] rp = 2 -> s0.L [] rp = 3 -> s0.F
        IN  /\ [state EXCEPT !.PC = 0, !.mem = <<>>, !.ub = FALSE, !.inte = FALSE]
                 = [s0 EXCEPT !.PC = 0, !.mem = <<>>, !.ub = FALSE, !.inte = FALSE]
            /\ ByteAt(state, s0.SP - 1) = hi
            /\ ByteAt(state, s0.SP - 2) = lo
            /\ trail[1].s.SP = (s0.SP - 2) % 65536
            /\ trail[1].cycles = 11
            /\ cycles = 10

\* the operands of the last arithmetic instruction
AluLhs == pre.A
AluRhs == IF LastOp \in AddRegOps \cup SubRegOps THEN pre.B ELSE Imm8
AluCin == IF LastOp \in {\h88, \hCE, \h98, \hDE} THEN CYof(pre.F) ELSE 0

\* C8: SUB, SUI, SBB, SBI, CMP, CPI: the result is (lhs - rhs - bin) mod 256,
\* S/Z/P come from it, CY = 1 iff lhs < rhs + bin, AC = 1 iff the nibble
\* difference (lhs & 15) - (rhs & 15) - bin is negative; CMP and CPI leave A,
\* the others store the result in A.  A=0x3E, B=0x3E, CY=1, SBB B gives
\* A=0xFF, F=0x97.
C8_SubFlags ==
    (Decoded /\ LastOp \in SubRegOps \cup SubImmOps) =>
        LET res == (AluLhs - AluRhs - AluCin) % 256
        IN  /\ state.A = (IF LastOp \in {\hB8, \hFE} THEN AluLhs ELSE res)
            /\ FlagsAre(state.F, res,
                        (AluLhs % 16) - (AluRhs % 16) - AluCin < 0,
                        AluLhs < AluRhs + AluCin, pre.F)
            /\ (LastOp = \h98 /\ AluLhs = \h3E /\ AluRhs = \h3E /\ AluCin = 1
                    /\ pre.F = \hD7)
                  => (state.A = \hFF /\ state.F = \h97 /\ cycles = 4)

\* SBB B ran with a borrow out of the low nibble and out of the byte
C8_Witness ==
    /\ Decoded /\ LastOp = \h98
    /\ pre.A = \h3E /\ pre.B = \h3E /\ CYof(pre.F) = 1
    /\ state.A = \hFF /\ state.F = \h97

\* C9: ADD, ADI, ADC, ACI: A becomes (a + b + cin) mod 256, S/Z/P come from
\* it, CY = 1 iff a + b + cin > 0xFF, AC = 1 iff (a & 15) + (b & 15) + cin > 15,
\* the fixed bits of F are untouched.  A=0x2E, B=0x6C, F=0x02, ADD B gives
\* A=0x9A, F=0x96 in 4 cycles.
C9_AddFlags ==
    (Decoded /\ LastOp \in AddRegOps \cup AddImmOps) =>
        LET sum == AluLhs + AluRhs + AluCin
        IN  /\ state.A = sum % 256
            /\ FlagsAre(state.F, sum % 256,
                        (AluLhs % 16) + (AluRhs % 16) + AluCin > 15,
                        sum > 255, pre.F)
            /\ cycles = (IF LastOp \in AddRegOps THEN 4 ELSE 7)
            /\ (LastOp = \h80 /\ AluLhs = \h2E /\ AluRhs = \h6C /\ pre.F = \h02)
                  => (state.A = \h9A /\ state.F = \h96)

\* ADD B ran on the operands of the example
C9_Witness ==
    /\ Decoded /\ LastOp = \h80
    /\ pre.A = \h2E /\ pre.B = \h6C /\ pre.F = \h02
    /\ state.A = \h9A /\ state.F = \h96 /\ cycles = 4

\* C10: DAA adds 0x06 if AC = 1 or (A & 15) > 9, and 0x60 if CY = 1 or
\* A > 0x99; S/Z/P come from the new A; AC is set iff (A_old & 15) +
\* (correction & 15) > 15; CY is 1 iff CY was 1 or A_old > 0x99; 4 is
\* returned.  A=0x9B, F=0x02 gives A=0x01, F=0x13.
C10_DAA ==
    (Decoded /\ LastOp = \h27) =>
        LET a0   == pre.A
            corr == (IF ACof(pre.F) = 1 \/ a0 % 16 > 9 THEN 6 ELSE 0)
                    + (IF CYof(pre.F) = 1 \/ a0 > 153 THEN 96 ELSE 0)
        IN  /\ state.A = (a0 + corr) % 256
            /\ FlagsAre(state.F, (a0 + corr) % 256,
                        (a0 % 16) + (corr % 16) > 15,
                        CYof(pre.F) = 1 \/ a0 > 153, pre.F)
            /\ cycles = 4
            /\ (a0 = \h9B /\ pre.F = \h02) => (state.A = \h01 /\ state.F = \h13)

\* DAA ran on a set carry with A <= 0x99 and kept the carry
C10_Witness ==
    /\ Decoded /\ LastOp = \h27
    /\ CYof(pre.F) = 1 /\ pre.A = \h42
    /\ CYof(state.F) = 1 /\ state.A = \hA2

-----------------------------------------------------------------------------
(* Rotates: a run of one rotate opcode on every accumulator value.  The     *)
(* caller keeps a copy of A in B, of F in C and of PC in HL, registers no   *)
(* rotate writes, so that the values the run started from stay visible.     *)

RotCalls == 9

RotOps   == {\h07, \h0F, \h17, \h1F}       \* RLC, RRC, RAL, RAR
RotFlags == {\h02, \h03, \hD6, \hD7}

InitRot ==
    \E a \in Byte, f \in RotFlags, op \in RotOps, pc \in {\h0100, \hFFFA} :
        Start(WithCode([Fresh EXCEPT !.A = a, !.B = a, !.F = f, !.C = f,
                                     !.PC = pc, !.H = pc \div 256, !.L = pc % 256],
                       [i \in 1 .. RotCalls |-> op]),
              FullBus, RotCalls)

SpecRot == InitRot /\ [][Next]_vars

\* the opcode the run repeats, and: exactly n calls have run, all on it
RotOp  == ByteAt(state, HL(state))
Ran(n) ==
    /\ n <= RotCalls
    /\ left = RotCalls - n
    /\ state.PC = (HL(state) + n) % 65536
    /\ \A i \in 0 .. n - 1 : ByteAt(state, HL(state) + i) = RotOp

\* C11: eight RLC (eight RRC) restore A, and CY is then the bit the eighth
\* rotation moved out (bit 7 resp. bit 0 of A before it); nine RAL (nine RAR)
\* restore A and CY; every rotate leaves S, Z, P, AC, the fixed bits, every
\* other register, SP and memory alone, steps PC by one and returns 4.
C11_RotateCycle ==
    /\ (Decoded /\ LastOp \in RotOps) =>
          /\ [state EXCEPT !.A = 0, !.F = 0, !.PC = 0]
                = [pre EXCEPT !.A = 0, !.F = 0, !.PC = 0]
          /\ state.F - CYof(state.F) = pre.F - CYof(pre.F)
          /\ state.PC = (pre.PC + 1) % 65536
          /\ cycles = 4
    /\ (Ran(8) /\ RotOp = \h07) =>
          (state.A = state.B /\ CYof(state.F) = BitOf(pre.A, 7))
    /\ (Ran(8) /\ RotOp = \h0F) =>
          (state.A = state.B /\ CYof(state.F) = BitOf(pre.A, 0))
    /\ (Ran(9) /\ RotOp \in {\h17, \h1F}) =>
          (state.A = state.B /\ state.F = state.C)

\* nine RAL have run from A = 0xA5 with CY = 1, the ninth changing A
C11_Witness ==
    /\ Ran(9) /\ RotOp = \h17
    /\ state.B = \hA5 /\ state.C = \h03
    /\ pre.A = \hD2 /\ CYof(pre.F) = 1
    /\ state.A = \hA5 /\ state.F = \h03

-----------------------------------------------------------------------------
(* INR / DCR: every operand (B, C, D, E, H, L, M, A) on every byte value.   *)

IncOps    == {\h04, \h0C, \h14, \h1C, \h24, \h2C, \h34, \h3C}
DecOps    == {\h05, \h0D, \h15, \h1D, \h25, \h2D, \h35, \h3D}

\* HL points into free memory or at the last byte; the operand is written
\* last, so that for H and L it is the operand that holds v
InitIncDec ==
    \E op \in IncOps \cup DecOps, v \in Byte, f \in AluFlags, hl \in {\h2400, \hFFFF} :
        Start(WithCode(reg_write(setHL([Fresh EXCEPT !.F = f, !.PC = \h0100], hl),
                                 (op \div 8) % 8, v),
                       <<op>>),
              FullBus, AluCalls)

SpecIncDec == InitIncDec /\ [][Next]_vars

\* the operand selected by the 3-bit field ddd in machine state s
Operand(s, ddd) ==
    CASE ddd = 0 -> s.B [] ddd = 1 -> s.C [] ddd = 2 -> s.D [] ddd = 3 -> s.E
      [] ddd = 4 -> s.H [] ddd = 5 -> s.L [] ddd = 7 -> s.A
      [] ddd = 6 -> ByteAt(s, s.H * 256 + s.L)

\* C12: INR and DCR leave CY alone, store (v+1) mod 256 resp. (v-1) mod 256
\* in the operand, set S/Z/P from it, set AC iff the low nibble of v was
\* 0x0F (INR) resp. 0x00 (DCR), and return 5, or 10 for operand M.
C12_IncDec ==
    (Decoded /\ LastOp \in IncOps \cup DecOps) =>
        LET ddd == (LastOp \div 8) % 8
            v   == Operand(pre, ddd)
            inc == LastOp \in IncOps
            res == IF inc THEN (v + 1) % 256 ELSE (v - 1) % 256
            at  == IF ddd = 6 THEN [pre EXCEPT !.mem = state.mem] ELSE state
        IN  /\ Operand(at, ddd) = res
            /\ FlagsAre(state.F, res,
                        IF inc THEN v % 16 = 15 ELSE v % 16 = 0,
                        CYof(pre.F) = 1, pre.F)
            /\ cycles = (IF ddd = 6 THEN 10 ELSE 5)
            /\ state.PC = (pre.PC + 1) % 65536

\* INR M ran with CY set on a byte whose low nibble is 0x0F
C12_Witness ==
    /\ Decoded /\ LastOp = \h34
    /\ Operand(pre, 6) = \h0F /\ pre.F = \hD7
    /\ Operand(state, 6) = \h10 /\ state.F = \h13
    /\ cycles = 10

-----------------------------------------------------------------------------
(* DAD / INX / DCX: every pair (BC, DE, HL, SP) on the boundary words.      *)

DadOps == {\h09, \h19, \h29, \h39}
InxOps == {\h03, \h13, \h23, \h33}
DcxOps == {\h0B, \h1B, \h2B, \h3B}

EdgeWords == {\h0000, \h0001, \h00FF, \h0100, \h1234, \h7FFF, \h8000, \hFFFF}

\* HL is set first: for the pair HL it is w that the instruction reads
InitPair ==
    \E op \in DadOps \cup InxOps \cup DcxOps, hl \in EdgeWords, w \in EdgeWords,
       f \in RotFlags :
        Start(WithCode(rp_write(setHL([Fresh EXCEPT !.A = \h5A, !.F = f,
                                                    !.PC = \h0100], hl),
                                (op \div 16) % 4, w),
                       <<op>>),
              FullBus, AluCalls)

SpecPair == InitPair /\ [][Next]_vars

\* the register pair selected by the 2-bit field rp, and s without it
PairOf(s, rp) ==
    CASE rp = 0 -> s.B * 256 + s.C
      [] rp = 1 -> s.D * 256 + s.E
      [] rp = 2 -> s.H * 256 + s.L
      [] rp = 3 -> s.SP
WithoutPair(s, rp) ==
    CASE rp = 0 -> [s EXCEPT !.B = 0, !.C = 0]
      [] rp = 1 -> [s EXCEPT !.D = 0, !.E = 0]
      [] rp = 2 -> [s EXCEPT !.H = 0, !.L = 0]
      [] rp = 3 -> [s EXCEPT !.SP = 0]

\* C13: DAD RP sets HL to (HL + RP) mod 2^16 and CY to 1 iff HL + RP >
\* 0xFFFF, leaves S, Z, P, AC, every other register, SP and memory alone and
\* returns 10; INX / DCX RP change only the named pair, by one mod 2^16, and
\* no flag.
C13_PairArithmetic ==
    /\ (Decoded /\ LastOp \in DadOps) =>
          LET sum == PairOf(pre, 2) + PairOf(pre, (LastOp \div 16) % 4)
          IN  /\ PairOf(state, 2) = sum % 65536
              /\ CYof(state.F) = (IF sum > 65535 THEN 1 ELSE 0)
              /\ state.F - CYof(state.F) = pre.F - CYof(pre.F)
              /\ [WithoutPair(state, 2) EXCEPT !.F = 0, !.PC = 0]
                    = [WithoutPair(pre, 2) EXCEPT !.F = 0, !.PC = 0]
              /\ state.PC = (pre.PC + 1) % 65536
              /\ cycles = 10
    /\ (Decoded /\ LastOp \in InxOps \cup DcxOps) =>
          LET rp == (LastOp \div 16) % 4
              d  == IF LastOp \in InxOps THEN 1 ELSE -1
          IN  /\ PairOf(state, rp) = (PairOf(pre, rp) + d) % 65536
              /\ [WithoutPair(state, rp) EXCEPT !.PC = 0]
                    = [WithoutPair(pre, rp) EXCEPT !.PC = 0]
              /\ state.PC = (pre.PC + 1) % 65536

\* DAD SP ran with a sum of exactly 0x10000 and set a carry that was clear
C13_Witness ==
    /\ Decoded /\ LastOp = \h39
    /\ PairOf(pre, 2) = \hFFFF /\ pre.SP = 1 /\ pre.F = \hD6
    /\ PairOf(state, 2) = 0 /\ state.SP = 1 /\ state.F = \hD7
    /\ cycles = 10

-----------------------------------------------------------------------------
(* RST n: every n, at the code addresses and stack tops of the call specs.  *)

RstOps == {\hC7, \hCF, \hD7, \hDF, \hE7, \hEF, \hF7, \hFF}

InitRst ==
    \E op \in RstOps, pc \in CodeAddrs \cup {\h1234}, sp \in StackTops,
       f \in AluFlags :
        Start(WithCode([Fresh EXCEPT !.A = \h5A, !.B = \hB0, !.F = f,
                                     !.PC = pc, !.SP = sp],
                       <<op>>),
              FullBus, CallCalls)

SpecRst == InitRst /\ [][Next]_vars

\* the registers and flags of s
Registers(s) == <<s.A, s.F, s.B, s.C, s.D, s.E, s.H, s.L>>

\* C14: RST n (0xC7 + 8n) at address p stores p+1 little-endian at SP0-2
\* (low byte at SP0-2, high byte at SP0-1), sets SP = SP0-2 and PC = 8n,
\* changes no register or flag and returns 11; PC=0x1234, SP=0x2400, RST 3
\* gives SP=0x23FE, mem[0x23FE]=0x35, mem[0x23FF]=0x12, PC=0x0018.
C14_Restart ==
    (Decoded /\ LastOp \in RstOps) =>
        LET n   == (LastOp - \hC7) \div 8
            ret == (pre.PC + 1) % 65536
        IN  /\ state.SP = (pre.SP - 2) % 65536
            /\ ByteAt(state, pre.SP - 2) = ret % 256
            /\ ByteAt(state, pre.SP - 1) = ret \div 256
            /\ state.PC = 8 * n
            /\ Registers(state) = Registers(pre)
            /\ cycles = 11
            /\ (pre.PC = \h1234 /\ pre.SP = \h2400 /\ n = 3) =>
                  /\ state.SP = \h23FE
                  /\ ByteAt(state, \h23FE) = \h35
                  /\ ByteAt(state, \h23FF) = \h12
                  /\ state.PC = \h0018

-----------------------------------------------------------------------------
(* Jccc a: every condition on every flag byte.                              *)

JcccOps == {\hC2, \hCA, \hD2, \hDA, \hE2, \hEA, \hF2, \hFA}

InitJump ==
    \E f \in FlagBytes, pc \in CodeAddrs, op \in JcccOps, a \in {\h0000, \h1234} :
        Start(WithCode([Fresh EXCEPT !.A = \h5A, !.F = f, !.SP = \h2400, !.PC = pc],
                       <<op, a % 256, a \div 256>>),
              FullBus, CallCalls)

SpecJump == InitJump /\ [][Next]_vars

\* C15: a conditional jump (0xC2 + 8*ccc) consumes both immediate bytes and
\* returns 10 taken or not; PC becomes the immediate address iff condition
\* ccc holds and PC0+3 mod 2^16 otherwise; SP, registers, flags and memory
\* are unchanged.
C15_CondJump ==
    (Decoded /\ LastOp \in JcccOps) =>
        /\ state.PC = (IF CondHolds(pre.F, (LastOp - \hC2) \div 8)
                       THEN Imm16 ELSE (pre.PC + 3) % 65536)
        /\ [state EXCEPT !.PC = 0] = [pre EXCEPT !.PC = 0]
        /\ cycles = 10

\* JPO ran not taken (P = 1) on an instruction that wraps past 0xFFFF
C15_Witness ==
    /\ Decoded /\ pre.PC = \hFFFE
    /\ LastOp = \hE2 /\ pre.F = \h06 /\ Imm16 = \h1234
    /\ state.PC = 1

-----------------------------------------------------------------------------
(* IN / OUT: every combination of installed handlers.                       *)

\* each std::function of IOBus set or empty
IoBuses == [in_handler : BOOLEAN, out_handler : BOOLEAN]

InitIo ==
    \E op \in {\hDB, \hD3}, port \in {\h00, \h10, \hFF}, a \in {\h00, \h5A},
       f \in AluFlags, pc \in {\h0100, \hFFFF}, b \in IoBuses :
        Start(WithCode([Fresh EXCEPT !.A = a, !.B = \hB0, !.F = f, !.PC = pc],
                       <<op, port>>),
              b, CallCalls)

SpecIo == InitIo /\ [][Next]_vars

\* C16: IN p sets A to 0xFF without input handler, and with one calls it once
\* with p and sets A to what it returns; OUT p calls the output handler once
\* with (p, A) when there is one and does nothing else; both advance PC by 2,
\* change no flag, no other register and no memory byte, and return 10.
C16_InOut ==
    /\ (Decoded /\ LastOp = \hDB) =>
          /\ IF io.in_handler
             THEN calls = << <<"in", Imm8, state.A>> >>
             ELSE calls = <<>> /\ state.A = \hFF
          /\ [state EXCEPT !.A = 0, !.PC = 0] = [pre EXCEPT !.A = 0, !.PC = 0]
          /\ state.PC = (pre.PC + 2) % 65536
          /\ cycles = 10
    /\ (Decoded /\ LastOp = \hD3) =>
          /\ calls = (IF io.out_handler THEN << <<"out", Imm8, pre.A>> >> ELSE <<>>)
          /\ [state EXCEPT !.PC = 0] = [pre EXCEPT !.PC = 0]
          /\ state.PC = (pre.PC + 2) % 65536
          /\ cycles = 10

\* IN 10h ran on a bus without input handler, from A = 0x5A
C16_Witness ==
    /\ Decoded /\ LastOp = \hDB /\ Imm8 = \h10
    /\ ~io.in_handler
    /\ pre.A = \h5A /\ state.A = \hFF
    /\ calls = <<>>

-----------------------------------------------------------------------------
(* Undocumented opcodes, with a return address on the stack for RET.        *)

AliasOps == {\h08, \h10, \h18, \h20, \h28, \h30, \h38,
             \hCB, \hDD, \hED, \hFD, \hD9}

InitAlias ==
    \E op \in AliasOps, f \in AluFlags, pc \in CodeAddrs, sp \in StackTops,
       a \in {\h0000, \h1234} :
        LET s == [Fresh EXCEPT !.A = \h5A, !.F = f, !.PC = pc, !.SP = sp]
        IN  Start(WithCode([s EXCEPT !.mem = Place(@, sp, <<\h78, \h56>>)],
                           <<op, a % 256, a \div 256>>),
                  FullBus, CallCalls)

SpecAlias == InitAlias /\ [][Next]_vars

\* the documented opcode an undocumented one stands for
Official(op) ==
    CASE op \in {\h08, \h10, \h18, \h20, \h28, \h30, \h38} -> \h00
      [] op = \hCB                                         -> \hC3
      [] op \in {\hDD, \hED, \hFD}                         -> \hCD
      [] op = \hD9                                         -> \hC9

\* C17: an undocumented opcode leaves the state and returns the cycle count
\* that its documented counterpart does when decoded in its place (under the
\* same outcome of an out-of-range access, if it makes one): 0x08 .. 0x38 as
\* NOP (only PC+1, 4 cycles), 0xCB as JMP, 0xDD/0xED/0xFD as CALL, 0xD9 as RET.
C17_Aliases ==
    (Decoded /\ LastOp \in AliasOps) =>
        LET fetched == [pre EXCEPT !.PC = (@ + 1) % 65536, !.ub = FALSE]
        IN  /\ \E u \in UbBytes \cup {0} :
                 LET r == Execute(fetched, Official(LastOp), io, u, \hFF)
                 IN  r.s = state /\ r.cycles = cycles /\ r.calls = calls
            /\ Official(LastOp) = \h00 => (state = fetched /\ cycles = 4)
            /\ Official(LastOp) = \hC3 =>
                  (state = [fetched EXCEPT !.PC = Imm16] /\ cycles = 10)
            /\ Official(LastOp) = \hCD =>
                  /\ state.PC = Imm16
                  /\ state.SP = (pre.SP - 2) % 65536
                  /\ ByteAt(state, pre.SP - 2) = ((pre.PC + 3) % 65536) % 256
                  /\ cycles = 17
            /\ Official(LastOp) = \hC9 =>
                  /\ state.PC % 256 = ByteAt(pre, pre.SP)
                  /\ state.SP = (pre.SP + 2) % 65536
                  /\ cycles = 10

\* 0xED ran as a CALL, and pushed the address after its three bytes
C17_Witness ==
    /\ Decoded /\ LastOp = \hED /\ Imm16 = \h1234
    /\ pre.PC = \h0100 /\ pre.SP = \h2400
    /\ state.PC = \h1234 /\ state.SP = \h23FE
    /\ ByteAt(state, \h23FE) = \h03 /\ ByteAt(state, \h23FF) = \h01
    /\ cycles = 17

-----------------------------------------------------------------------------
(* LoadBinary, called on the machine as main sets it up (main.cpp:69-83):   *)
(* HLT at 0x0000, RET at 0x0005, SP = 0xF000.                               *)

MaxFile   == 3
LoadCalls == 1

\* the contents of a file of at most MaxFile bytes
RECURSIVE Contents(_)
Contents(n) ==
    IF n = 0 THEN {<<>>}
    ELSE Contents(n - 1)
            \cup {Append(c, b) : c \in {d \in Contents(n - 1) : Len(d) = n - 1},
                                 b \in {\h00, \hC9, \hFF}}

LoadOffsets == {\h0000, \h0004, \h0100, \hFFFC, \hFFFD, \hFFFE, \hFFFF}

\* the State8080 of main before it loads the program
Booted == [Fresh EXCEPT !.mem = Place(Place(@, 0, <<\h76>>), 5, <<\hC9>>),
                        !.SP = \hF000]

InitLoad == Start(Booted, FullBus, LoadCalls)

\* LoadBinary(state, path, offset) on a file that fopen can open (readable)
\* or cannot; the call is kept with its outcome
Load ==
    /\ left > 0
    /\ \E readable \in BOOLEAN, offset \in LoadOffsets :
       \E file \in (IF readable THEN Contents(MaxFile) ELSE {<<>>}) :
         LET r == LoadBinary(state, IF readable THEN file ELSE "unreadable", offset)
         IN  /\ state' = r.s
             /\ calls' = << <<"LoadBinary", readable, file, offset, r.ok>> >>
    /\ trail' = <<Snapshot>> \o (IF trail = <<>> THEN <<>> ELSE <<trail[1]>>)
    /\ left'  = left - 1
    /\ UNCHANGED <<io, cycles, opcode, driver>>

SpecLoad == InitLoad /\ [][Load]_vars

\* C18: LoadBinary fails, leaving memory unchanged, when the file cannot be
\* opened or offset + length > 65536; otherwise it writes the file's bytes to
\* offset .. offset+length-1 and changes no byte outside that range and no
\* register, flag, PC or SP.
C18_LoadBinary ==
    (Called /\ calls # <<>> /\ calls[1][1] = "LoadBinary") =>
        LET readable == calls[1][2]
            file     == calls[1][3]
            offset   == calls[1][4]
            ok       == calls[1][5]
        IN  IF ~readable \/ offset + Len(file) > 65536
            THEN ~ok /\ state = pre
            ELSE /\ ok
                 /\ \A i \in 1 .. Len(file) :
                        MemAt(state.mem, offset + i - 1) = file[i]
                 /\ \A a \in (DOMAIN state.mem \cup DOMAIN pre.mem)
                                \ (offset .. offset + Len(file) - 1) :
                        MemAt(state.mem, a) = MemAt(pre.mem, a)
                 /\ [state EXCEPT !.mem = <<>>] = [pre EXCEPT !.mem = <<>>]

\* a two-byte file was loaded at 0xFFFE, ending exactly at the last byte
C18_Witness ==
    /\ Called /\ calls = << <<"LoadBinary", TRUE, <<\hC9, \hC9>>, \hFFFE, TRUE>> >>
    /\ MemAt(state.mem, \hFFFE) = \hC9 /\ MemAt(state.mem, \hFFFF) = \hC9
    /\ MemAt(pre.mem, \hFFFF) = 0

-----------------------------------------------------------------------------
(* The driver (main.cpp): main loads the program and runs its loop.  One    *)
(* action per way through an iteration of the loop: the BDOS hook, the      *)
(* break, the call of Step8080.  driver tells what the last iteration did.  *)

MainInstr == 3
MainCalls == 4

\* cpm_bdos (main.cpp:10-36).  out is what putchar received; hung tells that
\* the while loop of function 9 never ends (no '$' anywhere in memory), in
\* which case the pop is not reached.  u is the outcome of an undefined
\* access by pop16.
cpm_bdos(s, u) ==
    IF s.PC # \h0005
    THEN [hooked |-> FALSE, hung |-> FALSE, out |-> <<>>, s |-> s]
    ELSE LET dollars == {(a - DE(s)) % 65536 :
                            a \in {x \in DOMAIN s.mem : s.mem[x] = 36}}
             n   == CHOOSE k \in dollars : \A j \in dollars : k <= j
             out == CASE s.C = 2 -> <<s.E>>
                      [] s.C = 9 ->
                            [i \in 1 .. n |-> MemAt(s.mem, u16(DE(s) + i - 1))]
                                \o <<10>>
                      [] OTHER   -> <<>>
             top == pop16(s, u)
         IN  IF s.C = 9 /\ dollars = {}
             THEN [hooked |-> TRUE, hung |-> TRUE, out |-> <<>>, s |-> s]
             ELSE [hooked |-> TRUE, hung |-> FALSE, out |-> out,
                   s |-> [top.s EXCEPT !.PC = top.v]]

\* the programs main is run on: what a CP/M program does around a BDOS call.
\* DE stays below the load address, so that a string ends inside the image.
MainMenu ==
    { <<\h0E, \h02>>,          \* MVI C,2
      <<\h0E, \h09>>,          \* MVI C,9
      <<\h24>>,                \* INR H, whose opcode is '$'
      <<\h11, \h04, \h00>>,    \* LXI D,0004h
      <<\h31, \h01, \h00>>,    \* LXI SP,0001h
      <<\hCD, \h05, \h00>>,    \* CALL 0005h
      <<\hC3, \h04, \h00>>,    \* JMP 0004h
      <<\h76>>,                \* HLT
      <<\hC9>> }               \* RET

RECURSIVE MainPrograms(_)
MainPrograms(n) ==
    IF n = 0 THEN {<<>>}
    ELSE MainPrograms(n - 1) \cup {p \o i : p \in MainPrograms(n - 1), i \in MainMenu}

\* argv[2]: the default, an offset that puts the program around 0x0005, and 0
MainOffsets == {\h0000, \h0004, \h0100}

\* main.cpp:56-96: argv[1] unreadable makes main return 1 before the loop
InitMain ==
    \E readable \in BOOLEAN, load_offset \in MainOffsets :
    \E image \in (IF readable THEN MainPrograms(MainInstr) ELSE {<<>>}) :
        LET r == LoadBinary(Booted, IF readable THEN image ELSE "unreadable",
                            load_offset)
        IN  /\ state = (IF r.ok THEN [r.s EXCEPT !.PC = load_offset] ELSE r.s)
            /\ driver = (IF r.ok THEN "loop" ELSE "failed")
            /\ io = FullBus
            /\ cycles = 0
            /\ opcode = -1
            /\ calls = <<>>
            /\ trail = <<>>
            /\ left = MainCalls

\* main is inside its loop
Looping == driver \in {"loop", "hooked", "stepped"}

\* main.cpp:101: cpm_bdos(state) returned true; continue
Hook ==
    /\ Looping
    /\ left > 0
    /\ cpm_bdos(state, 0).hooked
    /\ \E u \in (IF state.SP = \hFFFF THEN UbBytes ELSE {0}) :
         LET r == cpm_bdos([state EXCEPT !.ub = FALSE], u)
         IN  /\ state'  = r.s
             /\ calls'  = [i \in 1 .. Len(r.out) |-> <<"putchar", r.out[i]>>]
             /\ driver' = (IF r.hung THEN "hung" ELSE "hooked")
    /\ trail' = <<Snapshot>> \o (IF trail = <<>> THEN <<>> ELSE <<trail[1]>>)
    /\ left'  = left - 1
    /\ UNCHANGED <<io, cycles, opcode>>

\* main.cpp:104: break
Exit ==
    /\ Looping
    /\ ~cpm_bdos(state, 0).hooked
    /\ state.halted \/ state.PC = \h0000
    /\ driver' = "exited"
    /\ calls'  = <<>>
    /\ trail'  = <<Snapshot>> \o (IF trail = <<>> THEN <<>> ELSE <<trail[1]>>)
    /\ UNCHANGED <<state, io, cycles, opcode, left>>

\* main.cpp:106: Step8080(state, io)
Run ==
    /\ Looping
    /\ ~cpm_bdos(state, 0).hooked
    /\ ~(state.halted \/ state.PC = \h0000)
    /\ Step
    /\ driver' = "stepped"

NextMain == Hook \/ Exit \/ Run

SpecMain == InitMain /\ [][NextMain]_vars

\* the little-endian word at address a of machine state s
WordAt(s, a) == ByteAt(s, a) + 256 * ByteAt(s, a + 1)

\* C19: when PC = 0x0005 at the start of an iteration, Step8080 is not called
\* in it: the driver writes what C selects (C=2: the byte in E; C=9: the
\* bytes from DE up to the first '$', then a newline; else nothing), then
\* sets PC to the little-endian word at SP and adds 2 to SP, changing no
\* other register, flag or memory byte; the byte at 0x0005 is never executed.
C19_BdosHook ==
    /\ (Called /\ driver # "none" /\ pre.PC = \h0005) =>
          /\ driver \in {"hooked", "hung"}
          /\ opcode = trail[1].opcode /\ cycles = trail[1].cycles
          /\ driver = "hooked" =>
                /\ state.PC = WordAt(pre, pre.SP)
                /\ state.SP = (pre.SP + 2) % 65536
                /\ [state EXCEPT !.PC = 0, !.SP = 0, !.ub = FALSE]
                      = [pre EXCEPT !.PC = 0, !.SP = 0, !.ub = FALSE]
                /\ pre.C = 2 => calls = << <<"putchar", pre.E>> >>
                /\ pre.C \notin {2, 9} => calls = <<>>
                /\ pre.C = 9 =>
                      /\ calls # <<>>
                      /\ calls[Len(calls)] = <<"putchar", 10>>
                      /\ ByteAt(pre, PairOf(pre, 1) + Len(calls) - 1) = 36
                      /\ \A i \in 1 .. Len(calls) - 1 :
                            /\ calls[i] = <<"putchar", ByteAt(pre, PairOf(pre, 1) + i - 1)>>
                            /\ calls[i][2] # 36
    /\ (driver = "stepped") => pre.PC # \h0005

\* C20: once halted is true or PC = 0x0000 at the start of an iteration, the
\* loop exits without a further instruction step or BDOS hook action, and
\* Step8080 is never called on a halted state or with PC = 0x0000.
C20_DriverTerminates ==
    /\ (Called /\ driver # "none" /\ (pre.halted \/ pre.PC = \h0000)) =>
          (driver = "exited" /\ state = pre /\ calls = <<>>)
    /\ (driver = "stepped") => (~pre.halted /\ pre.PC # \h0000)


\* C21: the BDOS hook with C = 9 always terminates: it writes the bytes from
\* DE upward (addresses mod 2^16) up to but excluding the first 0x24, then a
\* newline, and then returns by popping PC.
C21_PrintStringTerminates ==
    (Called /\ driver \in {"hooked", "hung"} /\ pre.C = 9) =>
        /\ driver = "hooked"
        /\ calls # <<>>
        /\ calls[Len(calls)] = <<"putchar", 10>>
        /\ ByteAt(pre, PairOf(pre, 1) + Len(calls) - 1) = 36
        /\ \A i \in 1 .. Len(calls) - 1 :
              /\ calls[i] = <<"putchar", ByteAt(pre, PairOf(pre, 1) + i - 1)>>
              /\ calls[i][2] # 36
        /\ state.PC = WordAt(pre, pre.SP)
        /\ state.SP = (pre.SP + 2) % 65536

\* C22 as stated: after SUB, SUI, SBB, SBI, CMP or CPI the AC flag is 0, for
\* every pair of operands and every borrow-in.
C22_SubNeverSetsAC ==
    (Decoded /\ LastOp \in SubRegOps \cup SubImmOps) => ACof(state.F) = 0

\* C22: the comparison of update_flags_sub is made on an int, so it is true
\* whenever the low nibble borrows: after SUB, SUI, SBB, SBI, CMP or CPI, AC is
\* 1 when (lhs & 15) < (rhs & 15) + borrow-in and 0 otherwise.
C22_NibbleBorrowSetsAC ==
    (Decoded /\ LastOp \in SubRegOps \cup SubImmOps) =>
        (ACof(state.F) = 1) = ((AluLhs % 16) < (AluRhs % 16) + AluCin)

\* SUB B ran on A=0x10, B=0x01 with AC clear before: the low nibble borrowed,
\* the byte did not, and AC came out set
C22_Witness ==
    /\ Decoded /\ LastOp = \h90
    /\ pre.A = \h10 /\ pre.B = \h01 /\ ACof(pre.F) = 0
    /\ state.A = \h0F /\ ACof(state.F) = 1 /\ CYof(state.F) = 0

(***************************************************************************)
(* Every opcode                                                            *)
(*                                                                         *)
(* One call of Step8080 on each of the 256 opcodes, followed by two        *)
(* operand bytes, at the load address and at the three addresses where an  *)
(* instruction wraps past 0xFFFF.                                          *)
(***************************************************************************)
DecodeCalls == 1

\* F values: every flag clear and every flag set, with bits 3 and 5 as the
\* constructor leaves them and as POP PSW can leave them (setPSW keeps them)
DecodeFlags == {\h02, \hD7, \h0A, \h2A, \hF7, \hFF}

DecodeAddrs == {\h0100, \hFFFD, \hFFFE, \hFFFF}

\* the operand bytes: an address in the middle of memory and one at its top,
\* neither of them next to the byte that follows the instruction
DecodeOperands == {<<\h34, \h12>>, <<\hFE, \hFF>>}

\* the stack is kept away from the instruction: the stack pointer whose pop or
\* push leaves the array goes with the code at the load address
InitDecode ==
    \E op \in Byte, operands \in DecodeOperands, pc \in DecodeAddrs,
       sp \in {\h2400, \hFFFF}, f \in DecodeFlags :
        /\ sp = \hFFFF => pc = \h0100
        /\ Start(WithCode([Fresh EXCEPT !.A = \h5A, !.B = \hB0, !.C = \h0F,
                                        !.D = \h31, !.E = \h00, !.H = \h30,
                                        !.L = \h00, !.F = f, !.PC = pc,
                                        !.SP = sp],
                          <<op>> \o operands),
                 FullBus, DecodeCalls)

SpecDecode == InitDecode /\ [][Next]_vars

RcccOps == {\hC0, \hC8, \hD0, \hD8, \hE0, \hE8, \hF0, \hF8}

\* the length of the instruction with opcode op, from the 8080 encoding
InstrLen(op) ==
    CASE op \in {\h01, \h11, \h21, \h31}             -> 3   \* LXI
      [] op \in {\h22, \h2A, \h32, \h3A}             -> 3   \* SHLD LHLD STA LDA
      [] op \in JmpOps \cup JcccOps                  -> 3
      [] op \in CallOps \cup CcccOps                 -> 3
      [] op < \h40 /\ op % 8 = 6                     -> 2   \* MVI
      [] op >= \hC0 /\ op % 8 = 6                    -> 2   \* ADI .. CPI
      [] op \in {\hD3, \hDB}                         -> 2   \* OUT IN
      [] OTHER                                       -> 1

\* opcode op, run with flags f, transfers control
Transfers(op, f) ==
    \/ op \in JmpOps \cup CallOps \cup RetOps \cup RstOps \cup {\hE9}
    \/ op \in JcccOps \cup CcccOps \cup RcccOps /\ CondHolds(f, (op \div 8) % 8)

\* the state before the call, with byte b at address a
PreWith(a, b) == [pre EXCEPT !.mem = MemPut(@, a % 65536, b)]

\* the addresses state s designates as data: through HL, BC, DE, the stack
\* pointer (a push below it, a pop or XTHL at it) and a 16-bit operand
DataAddrs(s) ==
    {HL(s), BC(s), DE(s)}
        \cup {(s.SP + d) % 65536 : d \in {-2, -1, 0, 1}}
        \cup {(WordAt(s, s.PC + 1) + d) % 65536 : d \in {0, 1}}

\* C23: a step that does not transfer control (JMP, taken Jccc, CALL, taken
\* Cccc, RET, taken Rccc, RST, PCHL, a call on a halted machine) leaves PC at
\* PC before plus the instruction length mod 2^16 (1, 2 for MVI, immediate
\* ALU, IN, OUT, 3 for LXI, LDA, STA, LHLD, SHLD and untaken Jccc, Cccc), also
\* across 0xFFFF; and no step reads beyond its instruction: with the byte that
\* follows the instruction replaced, the step has the same outcome, unless
\* that byte is also at an address the step uses for data.
C23_PcAdvance ==
    Decoded =>
        LET len  == InstrLen(LastOp)
            past == pre.PC + len
        IN  /\ ~Transfers(LastOp, pre.F) => state.PC = past % 65536
            /\ \A b \in {\h00, \h76, \hC3} :
                 \/ past % 65536 \in DataAddrs(pre)
                 \/ \E u \in UbBytes, inp \in InBytes :
                      LET r == Step8080(PreWith(past, b), io, u, inp)
                      IN  /\ r.cycles = cycles
                          /\ r.calls = calls
                          /\ [r.s EXCEPT !.mem = MemPut(@, past % 65536,
                                                        ByteAt(state, past))]
                                = state

\* LXI H at 0xFFFE took its operand from 0xFFFF and 0x0000 and left PC = 1
C23_Witness ==
    /\ Decoded /\ LastOp = \h21 /\ pre.PC = \hFFFE
    /\ state.L = \h34 /\ state.H = \h12 /\ state.PC = \h0001

\* C24: every instruction other than POP PSW (0xF1) leaves bits 1, 3 and 5 of
\* F as they were before the step, whatever it does to S, Z, AC, P and CY: a
\* pattern POP PSW has left is kept by every later instruction, and PUSH PSW
\* stores F as it is, at SP-2, below A.
C24_FixedBitsFrame ==
    (Decoded /\ LastOp # \hF1) =>
        /\ \A i \in {1, 3, 5} : BitOf(state.F, i) = BitOf(pre.F, i)
        /\ LastOp = \hF5 =>
              /\ state.F = pre.F
              /\ ByteAt(state, pre.SP - 2) = pre.F
              /\ ByteAt(state, pre.SP - 1) = pre.A

\* ADD B ran with bits 3 and 5 of F set and every flag clear: it set P and CY
\* and left bits 3 and 5 set
C24_Witness ==
    /\ Decoded /\ LastOp = \h80
    /\ pre.F = \h2A /\ pre.A = \h5A /\ pre.B = \hB0
    /\ state.A = \h0A /\ state.F = \h2F

(***************************************************************************)
(* CALL followed by RET                                                    *)
(*                                                                         *)
(* Two calls of Step8080: a CALL or Cccc at p whose target a holds a RET   *)
(* or Rccc.                                                                *)
(***************************************************************************)
RoundCalls == 2

\* the subroutine addresses: the BDOS entry of main.cpp:80 and a page of its own
RoundTargets == {\h0005, \h0200}

InitRound ==
    \E call \in CallOps \cup CcccOps, ret \in RetOps \cup RcccOps,
       p \in {\h0100, \hFFFD, \hFFFE}, a \in RoundTargets,
       sp \in StackTops, f \in AluFlags \cup {\h46, \h83} :
        Start([WithCode([Fresh EXCEPT !.A = \h5A, !.B = \hB0, !.F = f,
                                      !.PC = p, !.SP = sp],
                        <<call, a % 256, a \div 256>>)
                  EXCEPT !.mem = MemPut(@, a, ret)],
              FullBus, RoundCalls)

SpecRound == InitRound /\ [][Next]_vars

\* C25: a CALL a (or taken Cccc a) fetched at p, followed at once by a RET (or
\* taken Rccc) executed at a, leaves PC = p+3 mod 2^16, SP at its value before
\* the CALL and the registers and flags unchanged; the two steps return 17 and
\* then 10 cycles (11 for a taken Rccc).
C25_CallRetRoundTrip ==
    (/\ Len(trail) = 2
     /\ ~trail[2].s.halted
     /\ LET op0 == ByteAt(trail[2].s, trail[2].s.PC)
        IN  \/ op0 \in CallOps
            \/ op0 \in CcccOps /\ CondHolds(trail[2].s.F, (op0 \div 8) % 8)
     /\ pre.PC = WordAt(trail[2].s, trail[2].s.PC + 1)
     /\ \/ LastOp \in RetOps
        \/ LastOp \in RcccOps /\ CondHolds(pre.F, (LastOp \div 8) % 8)) =>
        /\ state.PC = (trail[2].s.PC + 3) % 65536
        /\ state.SP = trail[2].s.SP
        /\ Registers(state) = Registers(trail[2].s)
        /\ trail[1].cycles = 17
        /\ cycles = (IF LastOp \in RetOps THEN 10 ELSE 11)

====
